---------------------------- MODULE Spec2Model ----------------------------
(***************************************************************************)
(* Cisco MAC address table -> Nile MAB CSV conversion.                     *)
(*                                                                         *)
(* The model follows the Next.js API route (POST, parseFileContent,        *)
(* formatMacAddress, generateCsv).  Text is a sequence of one-character    *)
(* strings, so trimming, splitting, the mapping regular expression,        *)
(* parseInt, Number.toString and the comma/newline joins are computed      *)
(* character by character as the JavaScript does.                          *)
(***************************************************************************)
EXTENDS Integers, Sequences, FiniteSets, TLC

VARIABLES
    inputLines,         \* ghost: the lines the submitted file was built from
    body,               \* the JSON body of the request (request.json())
    pc,                 \* "request": body received; "done": response returned
    decodedContent,     \* POST local: atob(fileContent)
    clients,            \* POST local: records returned by parseFileContent
    uniqueVlans,        \* POST local: sorted VLAN ids returned by parseFileContent
    detectedMappings,   \* POST local: mappings returned by parseFileContent
    finalMappings,      \* POST local: the table handed to generateCsv
    csvContent,         \* POST local: the text returned by generateCsv
    response,           \* the NextResponse.json(...) of the handler
    requests,           \* the invocations of POST so far, in order of arrival
    served,             \* the invocations that returned, in order of return
    ui,                 \* the useState values of the page (Home in page.tsx)
    net,                \* the page's FileReader loads and fetches in flight
    event               \* ghost: the handler of the page that ran last

vars == <<inputLines, body, pc, decodedContent, clients, uniqueVlans,
          detectedMappings, finalMappings, csvContent, response,
          requests, served, ui, net, event>>

(***************************************************************************)
(* JavaScript string primitives over sequences of characters.              *)
(***************************************************************************)

\* Characters matched by \s and removed by String.prototype.trim.
WhiteSpace == {" ", "\t", "\r", "\n"}

\* Characters the regular expression atom "." does not match.
LineTerminators == {"\n", "\r"}

DigitChars == <<"0", "1", "2", "3", "4", "5", "6", "7", "8", "9">>

DigitVal(c) == (CHOOSE i \in 1..10 : DigitChars[i] = c) - 1

UpperChars == <<"A", "B", "C", "D", "E", "F", "G", "H", "I", "J", "K", "L", "M",
                "N", "O", "P", "Q", "R", "S", "T", "U", "V", "W", "X", "Y", "Z">>

LowerChars == <<"a", "b", "c", "d", "e", "f", "g", "h", "i", "j", "k", "l", "m",
                "n", "o", "p", "q", "r", "s", "t", "u", "v", "w", "x", "y", "z">>

\* String.prototype.toLowerCase, one character.
LowerChar(c) ==
    IF \E i \in 1..26 : UpperChars[i] = c
    THEN LowerChars[CHOOSE i \in 1..26 : UpperChars[i] = c]
    ELSE c

\* String.prototype.toLowerCase
toLowerCase(s) == [i \in 1..Len(s) |-> LowerChar(s[i])]

\* Index of the first character of s at or after i that lies in cs (inSet)
\* or outside cs (~inSet); Len(s) + 1 when there is none.
Scan(s, cs, inSet, i) ==
    IF \E j \in i..Len(s) : (s[j] \in cs) <=> inSet
    THEN CHOOSE j \in i..Len(s) :
            /\ (s[j] \in cs) <=> inSet
            /\ \A k \in i..(j - 1) : ~((s[k] \in cs) <=> inSet)
    ELSE Len(s) + 1

\* Index of the last character of s at or before i that lies outside cs; 0
\* when there is none.
ScanBack(s, cs, i) ==
    IF \E j \in 1..i : s[j] \notin cs
    THEN CHOOSE j \in 1..i :
            /\ s[j] \notin cs
            /\ \A k \in (j + 1)..i : s[k] \in cs
    ELSE 0

\* String.prototype.trimStart
TrimStart(s) == SubSeq(s, Scan(s, WhiteSpace, FALSE, 1), Len(s))

\* String.prototype.trimEnd
TrimEnd(s) == SubSeq(s, 1, ScanBack(s, WhiteSpace, Len(s)))

\* String.prototype.trim
Trim(s) == TrimEnd(TrimStart(s))

\* Index of the first character of s that lies in set cs, or 0.
ZeroIfPast(s, i) == IF i > Len(s) THEN 0 ELSE i

IndexOfAny(s, cs) == ZeroIfPast(s, Scan(s, cs, TRUE, 1))

RECURSIVE Split(_, _)
SplitAt(s, c, i) ==
    IF i = 0 THEN <<s>>
    ELSE <<SubSeq(s, 1, i - 1)>> \o Split(SubSeq(s, i + 1, Len(s)), c)

\* String.prototype.split(c) for a one-character separator.
Split(s, c) == SplitAt(s, c, IndexOfAny(s, {c}))

RECURSIVE SplitWhitespace(_)
SplitWhitespaceAt(s, i) ==
    IF i = 0 THEN <<s>>
    ELSE <<SubSeq(s, 1, i - 1)>>
         \o SplitWhitespace(SubSeq(s, Scan(s, WhiteSpace, FALSE, i), Len(s)))

\* String.prototype.split(/\s+/): the separators are the maximal runs of
\* whitespace; a leading or trailing run leaves an empty first or last part.
SplitWhitespace(s) == SplitWhitespaceAt(s, IndexOfAny(s, WhiteSpace))

\* Array.prototype.join(sep)
RECURSIVE Join(_, _)
Join(parts, sep) ==
    IF parts = <<>> THEN <<>>
    ELSE IF Len(parts) = 1 THEN parts[1]
    ELSE parts[1] \o sep \o Join(Tail(parts), sep)

DigitSet == {DigitChars[i] : i \in 1..10}

\* Length of the longest prefix of s made of decimal digits.
DigitPrefixLen(s) == Scan(s, DigitSet, FALSE, 1) - 1

\* Value of a sequence of decimal digits.
RECURSIVE DigitsValue(_)
DigitsValue(d) ==
    IF d = <<>> THEN 0
    ELSE 10 * DigitsValue(SubSeq(d, 1, Len(d) - 1)) + DigitVal(d[Len(d)])

\* The digits of parseInt: NaN when there is none, else their value, negated
\* after a "-".
parseDigits(negative, u, n) ==
    IF n = 0 THEN [isNaN |-> TRUE, value |-> 0]
    ELSE IF negative
    THEN [isNaN |-> FALSE, value |-> 0 - DigitsValue(SubSeq(u, 1, n))]
    ELSE [isNaN |-> FALSE, value |-> DigitsValue(SubSeq(u, 1, n))]

parseSigned(negative, u) == parseDigits(negative, u, DigitPrefixLen(u))

parseTrimmed(t) ==
    IF t # <<>> /\ Head(t) \in {"+", "-"}
    THEN parseSigned(Head(t) = "-", Tail(t))
    ELSE parseSigned(FALSE, t)

\* parseInt(s, 10): leading whitespace is skipped, one sign is accepted, the
\* longest run of digits that follows is the value and whatever comes after
\* it is ignored; NaN when no digit is found there.
parseInt(s) == parseTrimmed(TrimStart(s))

\* Number.prototype.toString for an integer.
RECURSIVE NatToString(_)
NatToString(n) ==
    IF n < 10 THEN <<DigitChars[n + 1]>>
    ELSE NatToString(n \div 10) \o <<DigitChars[(n % 10) + 1]>>

toString(n) == IF n < 0 THEN <<"-">> \o NatToString(0 - n) ELSE NatToString(n)

(***************************************************************************)
(* parseFileContent                                                        *)
(***************************************************************************)

Quotes == {"'", "\""}

NoMatch == [matched |-> FALSE, g1 |-> <<>>, g2 |-> <<>>]

\* ['"]?(.*?)['"]?$ from index q: one opening quote if there is one, then the
\* shortest text that is followed by the end of the line, or by one quote and
\* the end of the line.  "." matches no line terminator.
matchName(line, n, q) ==
    LET first == IF q <= Len(line) /\ line[q] \in Quotes THEN q + 1 ELSE q
        last  == IF first <= Len(line) /\ line[Len(line)] \in Quotes
                 THEN Len(line) - 1 ELSE Len(line)
    IN  IF \A i \in first..last : line[i] \notin LineTerminators
        THEN [matched |-> TRUE,
              g1 |-> SubSeq(line, 1, n), g2 |-> SubSeq(line, first, last)]
        ELSE NoMatch

\* =\s* at index p
matchEquals(line, n, p) ==
    IF p <= Len(line) /\ line[p] = "="
    THEN matchName(line, n, Scan(line, WhiteSpace, FALSE, p + 1))
    ELSE NoMatch

\* ^(\d+)\s* : n is the number of leading digits
matchDigits(line, n) ==
    IF n > 0
    THEN matchEquals(line, n, Scan(line, WhiteSpace, FALSE, n + 1))
    ELSE NoMatch

\* trimmedLine.match(/^(\d+)\s*=\s*['"]?(.*?)['"]?$/).  Every quantifier but
\* the lazy (.*?) is greedy, and the greedy choice always lets the rest
\* match, so the match is found without backtracking.
mappingMatch(trimmedLine) == matchDigits(trimmedLine, DigitPrefixLen(trimmedLine))

\* Mutant of SetProperty: a key that is already set keeps its value.
SetProperty_KeepFirst(obj, key, value) ==
    [k \in (DOMAIN obj) \cup {key} |-> IF k \in DOMAIN obj THEN obj[k] ELSE value]

\* detectedMappings[key] = value on a plain object.
SetProperty(obj, key, value) ==
    [k \in (DOMAIN obj) \cup {key} |-> IF k = key THEN value ELSE obj[k]]

\* Mutant of pushClient: a MAC that already has a record is not pushed again.
pushClient_Deduplicate(vlan, mac, port, acc) ==
    IF ~vlan.isNaN /\ mac # <<>> /\ port # <<>>
       /\ \A i \in 1..Len(acc.clients) : acc.clients[i].mac # mac
    THEN [acc EXCEPT
            !.uniqueVlans = @ \cup {vlan.value},
            !.clients = Append(@, [vlan |-> vlan.value, mac |-> mac, port |-> port])]
    ELSE acc

\* if (!isNaN(vlan) && mac && port) { uniqueVlans.add; clients.push }
pushClient(vlan, mac, port, acc) ==
    IF ~vlan.isNaN /\ mac # <<>> /\ port # <<>>
    THEN [acc EXCEPT
            !.uniqueVlans = @ \cup {vlan.value},
            !.clients = Append(@, [vlan |-> vlan.value, mac |-> mac, port |-> port])]
    ELSE acc

\* Mutant of bindingLine: the port is read one token early (parts[2]).
bindingLine_PortFromType(parts, acc) ==
    IF Len(parts) < 4 THEN acc
    ELSE pushClient(parseInt(parts[1]), parts[2], parts[3], acc)

\* const parts = trimmedLine.split(/\s+/) and what follows it
bindingLine(parts, acc) ==
    IF Len(parts) < 4 THEN acc
    ELSE pushClient(parseInt(parts[1]), parts[2], parts[4], acc)

\* Mutant of mappingLine: the key is the matched digits as written.
mappingLine_RawKey(m, acc) ==
    [acc EXCEPT !.detectedMappings = SetProperty(@, m.g1, m.g2)]

\* if (mappingMatch) { detectedMappings[vlanId.toString()] = segmentName }
mappingLine(m, acc) ==
    [acc EXCEPT !.detectedMappings =
                   SetProperty(@, toString(parseInt(m.g1).value), m.g2)]

\* Mutant of classifyLine: the binding pattern is tried first.
classifyLine_BindingFirst(trimmedLine, m, acc) ==
    IF Len(SplitWhitespace(trimmedLine)) >= 4
       /\ ~parseInt(SplitWhitespace(trimmedLine)[1]).isNaN
    THEN bindingLine(SplitWhitespace(trimmedLine), acc)
    ELSE IF m.matched THEN mappingLine(m, acc)
    ELSE acc

classifyLine(trimmedLine, m, acc) ==
    IF m.matched THEN mappingLine(m, acc)
    ELSE bindingLine(SplitWhitespace(trimmedLine), acc)

trimmedLineStep(trimmedLine, acc) ==
    IF trimmedLine = <<>> THEN acc
    ELSE classifyLine(trimmedLine, mappingMatch(trimmedLine), acc)

\* The body of lines.forEach(line => ...): one line against the accumulators.
processLine(line, acc) == trimmedLineStep(Trim(line), acc)

RECURSIVE forEachLine(_, _)
forEachLine(lines, acc) ==
    IF lines = <<>> THEN acc
    ELSE forEachLine(Tail(lines), processLine(Head(lines), acc))

\* Array.from(set).sort((a, b) => a - b)
RECURSIVE SortAscending(_)
SortAscending(S) ==
    IF S = {} THEN <<>>
    ELSE LET lo == CHOOSE x \in S : \A y \in S : x <= y
         IN  <<lo>> \o SortAscending(S \ {lo})

\* Mutant of parseResult: the mappings are returned only with records.
parseResult_MappingsWithRecords(acc) ==
    [clients          |-> acc.clients,
     uniqueVlans      |-> SortAscending(acc.uniqueVlans),
     detectedMappings |-> IF acc.clients = <<>> THEN <<>> ELSE acc.detectedMappings]

\* return { clients, uniqueVlans: ..., detectedMappings }
parseResult(acc) ==
    [clients          |-> acc.clients,
     uniqueVlans      |-> SortAscending(acc.uniqueVlans),
     detectedMappings |-> acc.detectedMappings]

parseFileContent(content) ==
    parseResult(forEachLine(Split(Trim(content), "\n"),
                            [clients          |-> <<>>,
                             uniqueVlans      |-> {},
                             detectedMappings |-> <<>>]))

(***************************************************************************)
(* formatMacAddress                                                        *)
(***************************************************************************)

MacSeparators == {".", ":", "-"}

\* Mutant of RemoveSeparators: the replace without the g flag removes the
\* first separator only.
RemoveSeparators_FirstOnly(mac) ==
    IF \E i \in 1..Len(mac) : mac[i] \in MacSeparators
    THEN LET first == CHOOSE i \in 1..Len(mac) :
                          /\ mac[i] \in MacSeparators
                          /\ \A k \in 1..(i - 1) : mac[k] \notin MacSeparators
         IN  SubSeq(mac, 1, first - 1) \o SubSeq(mac, first + 1, Len(mac))
    ELSE mac

\* mac.replace(/[.:-]/g, '')
RemoveSeparators(mac) == SelectSeq(mac, LAMBDA c : c \notin MacSeparators)

\* mac.match(/.{1,2}/g): from left to right, two characters where two
\* characters other than line terminators follow, else one; a line
\* terminator is stepped over.
RECURSIVE MatchPairs(_)
MatchPairs(s) ==
    IF s = <<>> THEN <<>>
    ELSE IF Head(s) \in LineTerminators THEN MatchPairs(Tail(s))
    ELSE IF Len(s) >= 2 /\ s[2] \notin LineTerminators
         THEN <<SubSeq(s, 1, 2)>> \o MatchPairs(SubSeq(s, 3, Len(s)))
         ELSE <<SubSeq(s, 1, 1)>> \o MatchPairs(Tail(s))

MacLength == 12

\* mac.match(/.{1,2}/g)?.join(':') || mac
joinGroups(mac, groups) ==
    IF groups = <<>> THEN mac ELSE Join(groups, <<":">>)

\* Mutant of formatCleaned: a MAC that is not 12 characters long is left out.
formatCleaned_DropUnparsed(mac) ==
    IF Len(mac) = MacLength THEN joinGroups(mac, MatchPairs(mac)) ELSE <<>>

formatCleaned(mac) ==
    IF Len(mac) = MacLength THEN joinGroups(mac, MatchPairs(mac)) ELSE mac

\* Mutant of formatMacAddress: the separators are removed, the case is kept.
formatMacAddress_KeepCase(mac) == formatCleaned(RemoveSeparators(mac))

formatMacAddress(mac) == formatCleaned(RemoveSeparators(toLowerCase(mac)))

(***************************************************************************)
(* generateCsv                                                             *)
(***************************************************************************)

headers ==
    <<
        <<"M", "A", "C", " ", "A", "d", "d", "r", "e", "s", "s", " ", "(",
          "R", "e", "q", "u", "i", "r", "e", "d", ")">>,
        <<"S", "e", "g", "m", "e", "n", "t", " ", "(", "R", "e", "q", "u",
          "i", "r", "e", "d", " ", "f", "o", "r", " ", "a", "l", "l", "o",
          "w", " ", "s", "t", "a", "t", "e", ")">>,
        <<"L", "o", "c", "k", " ", "t", "o", " ", "P", "o", "r", "t", " ",
          "(", "O", "p", "t", "i", "o", "n", "a", "l", ")">>,
        <<"S", "i", "t", "e", " ", "(", "O", "p", "t", "i", "o", "n", "a",
          "l", ")">>,
        <<"B", "u", "i", "l", "d", "i", "n", "g", " ", "(", "O", "p", "t",
          "i", "o", "n", "a", "l", ")">>,
        <<"F", "l", "o", "o", "r", " ", "(", "O", "p", "t", "i", "o", "n",
          "a", "l", ")">>,
        <<"A", "l", "l", "o", "w", " ", "o", "r", " ", "D", "e", "n", "y",
          " ", "(", "R", "e", "q", "u", "i", "r", "e", "d", ")">>,
        <<"D", "e", "s", "c", "r", "i", "p", "t", "i", "o", "n", " ", "(",
          "O", "p", "t", "i", "o", "n", "a", "l", ")">>,
        <<"S", "t", "a", "t", "i", "c", " ", "I", "P", " ", "(", "O", "p",
          "t", "i", "o", "n", "a", "l", ")">>,
        <<"I", "P", " ", "A", "d", "d", "r", "e", "s", "s", " ", "(", "O",
          "p", "t", "i", "o", "n", "a", "l", ")">>,
        <<"P", "a", "s", "s", "i", "v", "e", " ", "I", "P", " ", "(", "O",
          "p", "t", "i", "o", "n", "a", "l", ")">>
    >>

\* Mutant of propertyOrEmpty: without the || '', a missing property is
\* joined as the text "undefined".
propertyOrEmpty_Undefined(obj, key) ==
    IF key \in DOMAIN obj THEN obj[key]
    ELSE <<"u", "n", "d", "e", "f", "i", "n", "e", "d">>

\* obj[key] || '': a missing property and an empty name both give ''.
propertyOrEmpty(obj, key) == IF key \in DOMAIN obj THEN obj[key] ELSE <<>>

\* vlanMappings[vlan] || '': the property named by the number's decimal string
segmentOf(vlanMappings, vlan) == propertyOrEmpty(vlanMappings, toString(vlan))

\* Mutant of rowFields: Lock to Port is filled with the record's port.
rowFields_LockToPort(client, vlanMappings) ==
    <<formatMacAddress(client.mac),
      segmentOf(vlanMappings, client.vlan),
      client.port,
      <<>>, <<>>, <<>>,
      <<"A", "l", "l", "o", "w">>,
      <<>>, <<"N", "o">>, <<>>, <<"N", "o">>>>

\* The array of one row, before join(',').
rowFields(client, vlanMappings) ==
    <<formatMacAddress(client.mac),
      segmentOf(vlanMappings, client.vlan),
      <<>>,                     \* Lock to Port
      <<>>,                     \* Site
      <<>>,                     \* Building
      <<>>,                     \* Floor
      <<"A", "l", "l", "o", "w">>,
      <<>>,                     \* Description
      <<"N", "o">>,             \* Static IP
      <<>>,                     \* IP Address
      <<"N", "o">>>>            \* Passive IP

\* headers.join(',')
headerRow == Join(headers, <<",">>)

generateCsv(clientList, vlanMappings) ==
    LET rows == <<headerRow>>
                \o [i \in 1..Len(clientList) |->
                        Join(rowFields(clientList[i], vlanMappings), <<",">>)]
    IN  Join(rows, <<"\n">>)

(***************************************************************************)
(* The submitted file: lines of LinePool joined by newlines, every file of *)
(* at most MaxLines lines and the longer files of LongInputs.  A line is   *)
(* written either from its whitespace-separated tokens (a MAC table row, a *)
(* table header, a blank line) or as a VLAN declaration                    *)
(* <digits> = <quote><name><quote>; what it was written from is kept       *)
(* beside its text.  inputLines holds the indexes of the lines in LinePool.*)
(***************************************************************************)

MaxLines == 2

TokenLine(lead, sep, trail, toks) ==
    [kind   |-> "tokens",
     text   |-> lead \o Join(toks, sep) \o trail,
     toks   |-> toks,
     digits |-> <<>>, open |-> <<>>, name |-> <<>>, close |-> <<>>]

DeclarationLine(digits, ws1, ws2, open, name, close) ==
    [kind   |-> "declaration",
     text   |-> digits \o ws1 \o <<"=">> \o ws2 \o open \o name \o close,
     toks   |-> <<>>,
     digits |-> digits, open |-> open, name |-> name, close |-> close]

LinePool == <<
    TokenLine(<<>>, <<" ">>, <<>>,
                <<<<"1">>,
                  <<"0","0","1","e",".","0","b","4","1",".","7","a","f","d">>,
                  <<"D","Y","N","A","M","I","C">>,
                  <<"G","i","1","/","0","/","1","5">>>>),
    TokenLine(<<" "," "," ">>, <<" "," "," "," ">>, <<"\r">>,
                <<<<"2","0">>,
                  <<"0","0","1","E",".","0","B","4","1",".","7","A","F","D">>,
                  <<"S","T","A","T","I","C">>,
                  <<"G","i","1","/","0","/","2">>,
                  <<"x">>>>),
    TokenLine(<<>>, <<"\t">>, <<>>,
                <<<<"0","0","7">>,
                  <<"n","o","t","-","a","-","m","a","c">>,
                  <<"D","Y","N","A","M","I","C">>,
                  <<"P","o","1">>>>),
    TokenLine(<<>>, <<" ">>, <<>>,
                <<<<"1">>,
                  <<"z","z","z","z",".","z","z","z","z",".","z","z","z","z">>,
                  <<"D","Y","N","A","M","I","C">>,
                  <<"G","i","1","/","0","/","1","5">>>>),
    TokenLine(<<>>, <<" ">>, <<>>,
                <<<<"-","3">>,
                  <<"0","0",":","1","e",":","0","b",":","4","1",":","7","a",":","f","d">>,
                  <<"D","Y","N","A","M","I","C">>,
                  <<"G","i","1","/","0","/","3">>>>),
    TokenLine(<<>>, <<" ">>, <<>>,
                <<<<"1","0",".","0",".","0",".","1">>,
                  <<"a",",","b">>,
                  <<"A","R","P","A">>,
                  <<"V","l","a","n","1","0">>>>),
    TokenLine(<<>>, <<" ">>, <<>>,
                <<<<"V","l","a","n">>,
                  <<"M","a","c">>,
                  <<"A","d","d","r","e","s","s">>,
                  <<"T","y","p","e">>,
                  <<"P","o","r","t","s">>>>),
    TokenLine(<<>>, <<" ">>, <<>>,
                <<<<"1">>,
                  <<"0","0","1","e",".","0","b","4","1",".","7","a","f","d">>,
                  <<"D","Y","N","A","M","I","C">>>>),
    TokenLine(<<" "," ">>, <<" ">>, <<>>,
                <<>>),
    DeclarationLine(<<"5">>, <<" ">>, <<" ">>, <<"'">>,
                    <<"G","u","e","s","t">>, <<"'">>),
    DeclarationLine(<<"0","0","5">>, <<>>, <<>>, <<"\"">>,
                    <<"L","a","b">>, <<"\"">>),
    DeclarationLine(<<"2","0">>, <<" ">>, <<" ">>, <<>>,
                    <<"G","u","e","s","t"," ","W","i","f","i"," ","N","e","t">>, <<>>),
    DeclarationLine(<<"1">>, <<" ">>, <<" ">>, <<"'">>,
                    <<"A",",","B">>, <<"'">>),
    DeclarationLine(<<"1">>, <<"\t">>, <<" ">>, <<"'">>,
                    <<"G","u","e","s","t">>, <<"\"">>)
    >>

\* Files longer than MaxLines: declarations of one VLAN around a table row,
\* table rows around noise, a whole table with its declarations.
LongInputs ==
    { <<10, 1, 11>>, <<11, 2, 10, 3>>, <<1, 7, 2>>, <<2, 9, 8, 1>>,
      <<7, 10, 12, 1, 2, 3>>, <<2, 1, 1>>, <<3, 2, 1>> }

Inputs == UNION {[1..n -> 1..Len(LinePool)] : n \in 0..MaxLines} \cup LongInputs

\* The text of a file: its lines joined by "\n".
FileText(lines) ==
    Join([i \in 1..Len(lines) |-> LinePool[lines[i]].text], <<"\n">>)

(***************************************************************************)
(* The request.  base64 is kept abstract: btoa wraps the text it encodes   *)
(* and throws on a character above U+00FF, atob unwraps it and throws on a *)
(* string that is no base64.                                               *)
(***************************************************************************)

Undefined == [kind |-> "undefined"]

\* A character outside Latin-1, held as one element of a text.
NonLatin1 == {"U+5BA2"}

btoaThrows(text) == \E i \in 1..Len(text) : text[i] \in NonLatin1

btoa(text) == [kind |-> "base64", of |-> text]

NotBase64 == [kind |-> "string", of |-> <<"%">>]

atobThrows(s) == s.kind # "base64"

atob(s) == s.of

\* !fileContent: undefined and the empty string are falsy.
Falsy(s) == s.kind = "undefined" \/ s.of = <<>>

Object(map) == [kind |-> "object", map |-> map]

\* The mapping tables a caller sends.
SuppliedMappings ==
    { <<>>,
      (<<"1">> :> <<"C", "o", "r", "p">>) @@ (<<"7">> :> <<>>),
      (<<"2", "0">> :> <<"L", "a", "b", ",", "2">>),
      (<<"1">> :> <<"U+5BA2">>) @@ (<<"5">> :> <<"G", "u", "e", "s", "t">>) }

Boolean(b) == [kind |-> "boolean", of |-> b]

\* JSON.stringify({ fileContent: base64Content, vlanMappings }).  json tells
\* what request.json() makes of the body: an object with these properties.
RequestBody(lines, map) ==
    [json |-> "object",
     fileContent |-> btoa(FileText(lines)), vlanMappings |-> Object(map),
     includeIpColumns |-> Undefined]

\* A body that is no JSON (request.json() rejects with a SyntaxError) and
\* the body  null  (destructuring it throws a TypeError): no properties.
NoObject(json) ==
    [json |-> json,
     fileContent |-> Undefined, vlanMappings |-> Undefined,
     includeIpColumns |-> Undefined]

requestJsonThrows(b) == b.json = "SyntaxError"

destructureThrows(b) == b.json = "null"

\* The bodies a request for a file can carry: the ones the page sends, and
\* those of other callers with fileContent or vlanMappings left out, with
\* fileContent not base64, with the includeIpColumns flag the README's
\* "Static IP Support" checkbox stands for, or with no JSON object at all.
Bodies(lines) ==
    {RequestBody(lines, map) : map \in SuppliedMappings}
    \cup (IF lines = <<>>
          THEN {[RequestBody(lines, <<>>) EXCEPT !.fileContent = Undefined],
                [RequestBody(lines, <<>>) EXCEPT !.fileContent = NotBase64],
                NoObject("SyntaxError"), NoObject("null")}
          ELSE {})
    \cup (IF Len(lines) = 1
          THEN {[RequestBody(lines, <<>>) EXCEPT !.vlanMappings = Undefined]}
               \cup {[RequestBody(lines, <<>>) EXCEPT !.includeIpColumns = Boolean(b)]
                        : b \in BOOLEAN}
          ELSE {})

(***************************************************************************)
(* POST                                                                    *)
(***************************************************************************)

\* NextResponse.json({ error }, { status }); keys are the keys of the JSON
\* object sent.
ErrorResponse(status, message) ==
    [status |-> status, keys |-> {"error"}, error |-> message,
     csvContent |-> Undefined, detectedMappings |-> <<>>]

\* Mutant of OkResponse: the detected mappings are left out of the body.
OkResponse_CsvOnly(csv, detected) ==
    [status |-> 200, keys |-> {"csvContent"}, error |-> "",
     csvContent |-> btoa(csv), detectedMappings |-> <<>>]

\* NextResponse.json({ csvContent: btoa(csvContent), detectedMappings })
OkResponse(csv, detected) ==
    [status |-> 200, keys |-> {"csvContent", "detectedMappings"}, error |-> "",
     csvContent |-> btoa(csv), detectedMappings |-> detected]

\* What the handler leaves when it returns before a local is assigned.
NoLocals ==
    [decodedContent |-> <<>>, clients |-> <<>>, uniqueVlans |-> <<>>,
     detectedMappings |-> <<>>, finalMappings |-> <<>>, csvContent |-> <<>>]

\* const csvContent = generateCsv(clients, finalMappings); return json
rendered(locals, csv) ==
    IF btoaThrows(csv)
    THEN [locals EXCEPT !.csvContent = csv]
             @@ [response |-> ErrorResponse(400, "Failed to parse file content")]
    ELSE [locals EXCEPT !.csvContent = csv]
             @@ [response |-> OkResponse(csv, locals.detectedMappings)]

\* const finalMappings = Object.keys(vlanMappings).length > 0 ? ... : ...
render(locals, final) ==
    rendered([locals EXCEPT !.finalMappings = final],
             generateCsv(locals.clients, final))

\* Mutant of afterParse: the detected table is preferred, the supplied one
\* is the fallback.
afterParse_DetectedFirst(b, locals) ==
    IF Len(locals.clients) = 0
    THEN locals @@ [response |->
             ErrorResponse(400, "No valid MAC address entries found in the file")]
    ELSE IF b.vlanMappings.kind = "undefined"
    THEN locals @@ [response |-> ErrorResponse(400, "Failed to parse file content")]
    ELSE IF Cardinality(DOMAIN locals.detectedMappings) > 0
    THEN render(locals, locals.detectedMappings)
    ELSE render(locals, b.vlanMappings.map)

\* Mutant of afterParse: the supplied entries are laid over the detected
\* ones instead of replacing them.
afterParse_MergeDetected(b, locals) ==
    IF Len(locals.clients) = 0
    THEN locals @@ [response |->
             ErrorResponse(400, "No valid MAC address entries found in the file")]
    ELSE IF b.vlanMappings.kind = "undefined"
    THEN locals @@ [response |-> ErrorResponse(400, "Failed to parse file content")]
    ELSE render(locals, b.vlanMappings.map @@ locals.detectedMappings)

\* The handler after parseFileContent returned.
afterParse(b, locals) ==
    IF Len(locals.clients) = 0
    THEN locals @@ [response |->
             ErrorResponse(400, "No valid MAC address entries found in the file")]
    ELSE IF b.vlanMappings.kind = "undefined"
    \* Object.keys(undefined) throws a TypeError
    THEN locals @@ [response |-> ErrorResponse(400, "Failed to parse file content")]
    ELSE IF Cardinality(DOMAIN b.vlanMappings.map) > 0
    THEN render(locals, b.vlanMappings.map)
    ELSE render(locals, locals.detectedMappings)

\* Mutant of parsedLocals: detectedMappings is an object of the module, so
\* the entries of the invocation that ran before remain in it.
parsedLocals_ModuleLevelMappings(decoded, parsed) ==
    [NoLocals EXCEPT !.decodedContent   = decoded,
                     !.clients          = parsed.clients,
                     !.uniqueVlans      = parsed.uniqueVlans,
                     !.detectedMappings = parsed.detectedMappings @@ detectedMappings]

\* const { clients, uniqueVlans, detectedMappings } = parseFileContent(...)
parsedLocals(decoded, parsed) ==
    [NoLocals EXCEPT !.decodedContent   = decoded,
                     !.clients          = parsed.clients,
                     !.uniqueVlans      = parsed.uniqueVlans,
                     !.detectedMappings = parsed.detectedMappings]

\* The handler after atob returned.
afterDecode(b, decoded) ==
    afterParse(b, parsedLocals(decoded, parseFileContent(decoded)))

\* The handler: its locals and its response for a request body.
handle(b) ==
    IF requestJsonThrows(b) \/ destructureThrows(b)
    THEN NoLocals @@ [response |-> ErrorResponse(500, "Failed to process file")]
    ELSE IF Falsy(b.fileContent)
    THEN NoLocals @@ [response |-> ErrorResponse(400, "No file content provided")]
    ELSE IF atobThrows(b.fileContent)
    THEN NoLocals @@ [response |-> ErrorResponse(400, "Invalid file content encoding")]
    ELSE afterDecode(b, atob(b.fileContent))

Return(r) ==
    /\ decodedContent'   = r.decodedContent
    /\ clients'          = r.clients
    /\ uniqueVlans'      = r.uniqueVlans
    /\ detectedMappings' = r.detectedMappings
    /\ finalMappings'    = r.finalMappings
    /\ csvContent'       = r.csvContent
    /\ response'         = r.response

POST ==
    /\ pc = "request"
    /\ Return(handle(body))
    /\ pc' = "done"
    /\ UNCHANGED <<inputLines, body, requests, served, ui, net, event>>

\* The page before a file is chosen: the initial useState values.  alert is
\* the message of the last alert() and alerts the number of alert() calls.
\* event is the handler that ran last, with
\* the number of the user's actions and of the uploads among them.
Null == [kind |-> "null"]

String(text) == [kind |-> "string", of |-> text]

NoPage ==
    [file |-> Null, fileContent |-> Null, vlans |-> <<>>, vlanMappings |-> <<>>,
     detectedMappings |-> <<>>, csvData |-> Null, isLoading |-> FALSE,
     step |-> "upload", alert |-> <<>>, alerts |-> 0]

NoEvent == [kind |-> "none", n |-> 0, uploads |-> 0]

NoResponse == [status |-> 0, keys |-> {}, error |-> "",
               csvContent |-> Undefined, detectedMappings |-> <<>>]

Init ==
    /\ inputLines \in Inputs
    /\ body \in Bodies(inputLines)
    /\ pc = "request"
    /\ decodedContent = <<>>
    /\ clients = <<>>
    /\ uniqueVlans = <<>>
    /\ detectedMappings = <<>>
    /\ finalMappings = <<>>
    /\ csvContent = <<>>
    /\ response = NoResponse
    /\ requests = <<>>
    /\ served = <<>>
    /\ ui = NoPage
    /\ net = {}
    /\ event = NoEvent

Next == POST

Spec == Init /\ [][Next]_vars

(***************************************************************************)
(* The route under several requests.  POST is an async function whose only *)
(* await is request.json(): an invocation is suspended there and runs from *)
(* there to its return in one step, so invocations overlap between arrival *)
(* and resumption and return in any order.  The module of the route holds  *)
(* no variable besides the constant API_ENDPOINT; the locals of the        *)
(* invocation that ran last are kept in the variables of POST.             *)
(***************************************************************************)

MaxRequests == 3

\* The requests that arrive: a file with a declaration and a record, a file
\* with a record only, a file with a declaration only, and a body that is
\* no base64.
ServerRequests ==
    { [lines |-> <<13, 1>>, body |-> RequestBody(<<13, 1>>, <<>>)],
      [lines |-> <<1>>,     body |-> RequestBody(<<1>>, <<>>)],
      [lines |-> <<10>>,    body |-> RequestBody(<<10>>, <<>>)],
      [lines |-> <<>>,      body |-> [RequestBody(<<>>, <<>>) EXCEPT !.fileContent = NotBase64]] }

ServerInit ==
    /\ inputLines = <<>>
    /\ body = RequestBody(<<>>, <<>>)
    /\ pc = "idle"
    /\ decodedContent = <<>>
    /\ clients = <<>>
    /\ uniqueVlans = <<>>
    /\ detectedMappings = <<>>
    /\ finalMappings = <<>>
    /\ csvContent = <<>>
    /\ response = NoResponse
    /\ requests = <<>>
    /\ served = <<>>
    /\ ui = NoPage
    /\ net = {}
    /\ event = NoEvent

\* POST is invoked and suspends at  await request.json().
Arrive ==
    /\ Len(requests) < MaxRequests
    /\ \E r \in ServerRequests : requests' = Append(requests, r)
    /\ UNCHANGED <<inputLines, body, pc, decodedContent, clients, uniqueVlans,
                   detectedMappings, finalMappings, csvContent, response, served,
                   ui, net, event>>

Pending == {id \in 1..Len(requests) : \A k \in 1..Len(served) : served[k].id # id}

\* A suspended invocation resumes with its body and runs to its return.
Resume(id) ==
    /\ inputLines' = requests[id].lines
    /\ body' = requests[id].body
    /\ Return(handle(requests[id].body))
    /\ pc' = "done"
    /\ served' = Append(served, [id |-> id, response |-> response'])
    /\ UNCHANGED <<requests, ui, net, event>>

ResumeSome == \E id \in Pending : Resume(id)

ServerNext == Arrive \/ ResumeSome

SpecServer == ServerInit /\ [][ServerNext]_vars

(***************************************************************************)
(* The page (Home in page.tsx).  Each handler runs to its end or to its    *)
(* next await in one step and React applies its set... calls together.  A  *)
(* FileReader load and a fetch are in flight between the handler that      *)
(* starts them and the callback or continuation that ends them; what is in *)
(* flight keeps what its closure captured and ends in any order.           *)
(***************************************************************************)

MaxGestures == 3

MaxUploads == 2

\* A file to upload: the lines it was written from, and its text.
PageFile(lines, tail) == [lines |-> lines, text |-> FileText(lines) \o tail]

\* The files a user uploads: a declaration with unpaired quotes and a row of
\* its VLAN; a declaration and a row of its VLAN; a declared VLAN and a row
\* of another; a declaration alone; the empty file; a row followed by a line
\* with a character outside Latin-1.
PageFiles ==
    { PageFile(<<14, 1>>, <<>>), PageFile(<<12, 2>>, <<>>),
      PageFile(<<10, 1, 11>>, <<>>), PageFile(<<10>>, <<>>), PageFile(<<>>, <<>>),
      PageFile(<<1>>, <<"\n", "U+5BA2">>) }

\* What a user types into a mapping field.
TypedNames == { <<>>, <<"C", "o", "r", "p">> }

\* processFile, reader.onload: the scan of the page.
\* if (parts.length >= 4) { if (!isNaN(vlan)) uniqueVlans.add(vlan) }
addVlan(vlan, acc) ==
    IF vlan.isNaN THEN acc ELSE [acc EXCEPT !.uniqueVlans = @ \cup {vlan.value}]

\* Mutant of scanParts: a line of three tokens counts as a table row.
scanParts_ThreeTokens(parts, acc) ==
    IF Len(parts) >= 3 THEN addVlan(parseInt(parts[1]), acc) ELSE acc

scanParts(parts, acc) ==
    IF Len(parts) >= 4 THEN addVlan(parseInt(parts[1]), acc) ELSE acc

scanMatch(trimmedLine, m, acc) ==
    IF m.matched
    THEN [acc EXCEPT !.mappings = SetProperty(@, toString(parseInt(m.g1).value), m.g2)]
    ELSE scanParts(SplitWhitespace(trimmedLine), acc)

scanTrimmed(trimmedLine, acc) ==
    IF trimmedLine = <<>> THEN acc
    ELSE scanMatch(trimmedLine, mappingMatch(trimmedLine), acc)

RECURSIVE scanLines(_, _)
scanLines(lines, acc) ==
    IF lines = <<>> THEN acc
    ELSE scanLines(Tail(lines), scanTrimmed(Trim(Head(lines)), acc))

\* const lines = content.split('\n'); lines.forEach(...)
scan(content) ==
    scanLines(Split(content, "\n"), [uniqueVlans |-> {}, mappings |-> <<>>])

\* sortedVlans.forEach(vlan => { if (mappings[vlan.toString()]) ... })
initialMappings(sortedVlans, mappings) ==
    [k \in {key \in {toString(sortedVlans[i]) : i \in 1..Len(sortedVlans)} :
                key \in DOMAIN mappings /\ mappings[key] # <<>>}
        |-> mappings[k]]

loaded(u, content, sortedVlans, mappings) ==
    [u EXCEPT !.fileContent      = String(content),
              !.vlans            = sortedVlans,
              !.detectedMappings = mappings,
              !.vlanMappings     = initialMappings(sortedVlans, mappings),
              !.isLoading        = FALSE,
              !.step             = "mapping"]

scanned(u, content, found) ==
    loaded(u, content, SortAscending(found.uniqueVlans), found.mappings)

\* reader.onload
onload(u, content) == scanned(u, content, scan(content))

\* processFile up to reader.readAsText(file)
processFile(u, file) == [u EXCEPT !.file = String(file.text), !.isLoading = TRUE]

\* handleVlanMappingChange
handleVlanMappingChange(u, vlan, segmentName) ==
    [u EXCEPT !.vlanMappings = SetProperty(@, toString(vlan), segmentName)]

\* Mutant of handleReset: setVlanMappings({}) is left out.
handleReset_KeepMappings(u) ==
    [u EXCEPT !.file = Null, !.fileContent = Null, !.vlans = <<>>,
              !.detectedMappings = <<>>,
              !.csvData = Null, !.step = "upload"]

\* handleReset
handleReset(u) ==
    [u EXCEPT !.file = Null, !.fileContent = Null, !.vlans = <<>>,
              !.vlanMappings = <<>>, !.detectedMappings = <<>>,
              !.csvData = Null, !.step = "upload"]

\* handleProcessFile: catch (error) { alert(errorMessage) } finally { ... }
failed(u, message) ==
    [u EXCEPT !.alert = message, !.alerts = @ + 1, !.isLoading = FALSE]

\* !fileContent
Missing(content) == content.kind = "null" \/ content.of = <<>>

\* handleProcessFile before the fetch: what stops it there, if anything.
missingOrUnencodable(u) ==
    IF Missing(u.fileContent) THEN <<"File content is missing">>
    ELSE IF btoaThrows(u.fileContent.of) THEN <<"InvalidCharacterError">>
    ELSE <<>>

\* body: JSON.stringify({ fileContent: base64Content, vlanMappings })
fetchBody(u) ==
    [json |-> "object",
     fileContent |-> btoa(u.fileContent.of), vlanMappings |-> Object(u.vlanMappings),
     includeIpColumns |-> Undefined]

\* What comes back for a fetch: the answer of the route, a body that is no
\* JSON, or, from an endpoint other than the route (NEXT_PUBLIC_API_ENDPOINT),
\* a 200 without csvContent; a fetch that is not answered is rejected.
RouteReply(r) == [kind |-> "http", status |-> r.status, json |-> "object", data |-> r]

NetworkError == [kind |-> "network"]

NotJson == [kind |-> "http", status |-> 200, json |-> "SyntaxError", data |-> NoResponse]

NoCsvContent ==
    [kind |-> "http", status |-> 200, json |-> "object",
     data |-> [status |-> 200, keys |-> {"detectedMappings"}, error |-> "",
               csvContent |-> Undefined,
               detectedMappings |-> (<<"9">> :> <<"X">>)]]

Replies(b) == {RouteReply(handle(b).response), NotJson, NoCsvContent}

NoReply == [kind |-> "none"]

\* const csv = atob(data.csvContent); setCsvData(csv); setStep('results')
decoded(u, data) ==
    IF atobThrows(data.csvContent)
    THEN failed(u, <<"InvalidCharacterError">>)
    ELSE [u EXCEPT !.csvData = String(atob(data.csvContent)),
                   !.step = "results", !.isLoading = FALSE]

\* if (data.detectedMappings) setDetectedMappings(data.detectedMappings)
received(u, data) ==
    IF "detectedMappings" \in data.keys
    THEN decoded([u EXCEPT !.detectedMappings = data.detectedMappings], data)
    ELSE decoded(u, data)

\* Mutant of settled: setIsLoading(false) stands at the end of the try block
\* instead of in finally.
settled_NoFinally(u, reply) ==
    IF reply.kind = "network"
    THEN [u EXCEPT !.alert = <<"Failed to fetch">>, !.alerts = @ + 1]
    ELSE IF reply.status \notin 200..299
    THEN [u EXCEPT !.alert = <<"API error: ", reply.status>>, !.alerts = @ + 1]
    ELSE IF reply.json = "SyntaxError"
    THEN [u EXCEPT !.alert = <<"SyntaxError">>, !.alerts = @ + 1]
    ELSE IF atobThrows(reply.data.csvContent)
    THEN [received(u, reply.data) EXCEPT !.isLoading = u.isLoading]
    ELSE received(u, reply.data)

\* handleProcessFile from the answer of fetch to its end
settled(u, reply) ==
    IF reply.kind = "network" THEN failed(u, <<"Failed to fetch">>)
    ELSE IF reply.status \notin 200..299
    THEN failed(u, <<"API error: ", reply.status>>)
    ELSE IF reply.json = "SyntaxError" THEN failed(u, <<"SyntaxError">>)
    ELSE received(u, reply.data)

Gesture(kind) ==
    /\ event.n < MaxGestures
    /\ event' = [kind |-> kind, n |-> event.n + 1,
                 uploads |-> event.uploads + (IF kind = "upload" THEN 1 ELSE 0)]

Callback(kind) == event' = [event EXCEPT !.kind = kind]

ServerIdle ==
    UNCHANGED <<inputLines, body, pc, decodedContent, clients, uniqueVlans,
                detectedMappings, finalMappings, csvContent, response,
                requests, served>>

\* handleDrop, handleFileSelect: the drop zone is rendered in the upload
\* step; a drop is accepted while a file is being read.
UploadFrom(files) ==
    /\ ui.step = "upload"
    /\ event.uploads < MaxUploads
    /\ Gesture("upload")
    /\ \E f \in files :
          /\ ui' = processFile(ui, f)
          /\ net' = net \cup {[kind |-> "read", id |-> event.n + 1, file |-> f,
                                reply |-> NoReply]}
    /\ ServerIdle

Upload == UploadFrom(PageFiles)

Reads == {op \in net : op.kind = "read"}

Fetches == {op \in net : op.kind = "fetch"}

ReaderLoad ==
    /\ \E op \in Reads :
          /\ ui' = onload(ui, op.file.text)
          /\ net' = net \ {op}
    /\ Callback("load")
    /\ ServerIdle

\* onChange of a mapping field; the fields are rendered in the mapping step.
Type ==
    /\ ui.step = "mapping"
    /\ Gesture("type")
    /\ \E i \in 1..Len(ui.vlans), name \in TypedNames :
          ui' = handleVlanMappingChange(ui, ui.vlans[i], name)
    /\ UNCHANGED net
    /\ ServerIdle

\* Process File: rendered in the mapping step, disabled while isLoading.
ProcessClick ==
    /\ ui.step = "mapping" /\ ~ui.isLoading
    /\ Gesture("process")
    /\ IF missingOrUnencodable(ui) # <<>>
       THEN /\ ui' = failed(ui, missingOrUnencodable(ui))
            /\ UNCHANGED net
       ELSE /\ ui' = [ui EXCEPT !.isLoading = TRUE]
            /\ net' = net \cup {[kind |-> "fetch", id |-> event.n + 1,
                                 body |-> fetchBody(ui), reply |-> NoReply]}
    /\ ServerIdle

\* The endpoint answers a request that is in flight.
Answer ==
    /\ \E op \in Fetches :
          /\ op.reply = NoReply
          /\ \E reply \in Replies(op.body) :
                net' = (net \ {op}) \cup {[op EXCEPT !.reply = reply]}
    /\ UNCHANGED <<ui, event>>
    /\ ServerIdle

\* await fetch(...) ends: with the answer, or rejected when there is none.
FetchSettles ==
    /\ \E op \in Fetches :
          /\ ui' = settled(ui, IF op.reply = NoReply THEN NetworkError ELSE op.reply)
          /\ net' = net \ {op}
    /\ Callback("settle")
    /\ ServerIdle

\* Back (mapping step) and Process Another File (results step).
Reset ==
    /\ ui.step \in {"mapping", "results"}
    /\ Gesture("reset")
    /\ ui' = handleReset(ui)
    /\ UNCHANGED net
    /\ ServerIdle

PageInit == ServerInit

PageNext ==
    Upload \/ ReaderLoad \/ Type \/ ProcessClick \/ Answer \/ FetchSettles \/ Reset

SpecPage == PageInit /\ [][PageNext]_vars

\* The browser ends every fetch, with an answer or with an error.
SpecPageFair == SpecPage /\ WF_vars(FetchSettles)

\* The scan of the page alone, on every file of Inputs: the file is chosen
\* and read.
ScanInit ==
    /\ inputLines \in Inputs
    /\ body = RequestBody(<<>>, <<>>)
    /\ pc = "idle"
    /\ decodedContent = <<>> /\ clients = <<>> /\ uniqueVlans = <<>>
    /\ detectedMappings = <<>> /\ finalMappings = <<>> /\ csvContent = <<>>
    /\ response = NoResponse /\ requests = <<>> /\ served = <<>>
    /\ ui = NoPage /\ net = {} /\ event = NoEvent

ChooseFile == UploadFrom({PageFile(inputLines, <<>>)})

ScanNext == ChooseFile \/ ReaderLoad

SpecScan == ScanInit /\ [][ScanNext]_vars

(***************************************************************************)
(* What the claims are stated with.  The tables below give, for the tokens *)
(* of LinePool, what the specification says of them; they are written out  *)
(* by hand and do not go through the operators above.                      *)
(***************************************************************************)

\* parseFileContent has run: the handler got past the decoding.
Parsed ==
    /\ pc = "done"
    /\ response.error \notin {"Failed to process file",
                              "No file content provided",
                              "Invalid file content encoding"}

\* generateCsv has run: csvContent holds its text.
Generated == pc = "done" /\ csvContent # <<>>

\* The handler returned the CSV.
Rendered == pc = "done" /\ response.status = 200

LineAt(i) == LinePool[inputLines[i]]

LastLine == LineAt(Len(inputLines))

\* Extraction of the file without its last line.
Before == parseFileContent(FileText(SubSeq(inputLines, 1, Len(inputLines) - 1)))

\* The first tokens that are integers, with their values.
IntegerValue ==
    (<<"1">> :> 1) @@ (<<"2", "0">> :> 20) @@ (<<"0", "0", "7">> :> 7)
    @@ (<<"-", "3">> :> (0 - 3))

\* The decimal string of a declaration's VLAN id.
DecimalKey ==
    (<<"5">> :> <<"5">>) @@ (<<"0", "0", "5">> :> <<"5">>)
    @@ (<<"2", "0">> :> <<"2", "0">>) @@ (<<"1">> :> <<"1">>)

\* The decimal string of a record's VLAN id.
VlanKey ==
    (1 :> <<"1">>) @@ (20 :> <<"2", "0">>) @@ (7 :> <<"7">>)
    @@ ((0 - 3) :> <<"-", "3">>) @@ (10 :> <<"1", "0">>)

IsPrefix(p, s) == Len(p) <= Len(s) /\ SubSeq(s, 1, Len(p)) = p

IsSuffix(p, s) == Len(p) <= Len(s) /\ SubSeq(s, Len(s) - Len(p) + 1, Len(s)) = p

\* The lines of the CSV.
CsvRows == Split(csvContent, "\n")

\* A MAC token lower-cased and without '.', ':' and '-'.
CleanedForm(mac) == SelectSeq(toLowerCase(mac), LAMBDA c : c \notin {".", ":", "-"})

\* Twelve characters as six groups of two joined by ':'.
Octets(c) == [i \in 1..17 |-> IF i % 3 = 0 THEN ":" ELSE c[i - (i \div 3)]]

\* What follows the Segment field in every row.
RowTail == <<",",",",",",",",",","A","l","l","o","w",",",",","N","o",",",",","N","o">>

(***************************************************************************)
(* C1: the CSV is the header line followed by one row per extracted        *)
(* record, in input order: the records of a file are the records of the    *)
(* file without its last line followed by the record of that last line     *)
(* (nothing is sorted, grouped or dropped as a duplicate), and row i is    *)
(* the row that record i renders to on its own.                            *)
(***************************************************************************)
C1_RecordsAppend(before, own) == clients = before.clients \o own.clients

C1_RowPerRecord(rows) ==
    /\ Len(rows) = 1 + Len(clients)
    /\ rows[1] = headerRow
    /\ \A i \in 1..Len(clients) :
          rows[i + 1] = Split(generateCsv(<<clients[i]>>, finalMappings), "\n")[2]

C1_RowPerBindingLineInOrder ==
    /\ (Parsed /\ inputLines # <<>>)
          => C1_RecordsAppend(Before, parseFileContent(LastLine.text))
    /\ Generated => C1_RowPerRecord(CsvRows)

\* A CSV of two rows whose VLAN ids descend, and one with a repeated line.
C1_Witness ==
    /\ Rendered
    /\ inputLines = <<2, 1, 1>>
    /\ Len(CsvRows) = 4
    /\ clients[1].vlan = 20 /\ clients[2].vlan = 1 /\ clients[3] = clients[2]

(***************************************************************************)
(* C2: a line of at least 4 tokens whose first token is an integer adds    *)
(* exactly one record: vlan the value of token 0, mac token 1 as written,  *)
(* port token 3; nothing else of the line is kept.                         *)
(***************************************************************************)
IsIntegerRow(line) ==
    /\ line.kind = "tokens"
    /\ Len(line.toks) >= 4
    /\ line.toks[1] \in DOMAIN IntegerValue

C2_OneRecord(before, toks) ==
    clients = Append(before.clients, [vlan |-> IntegerValue[toks[1]],
                                      mac  |-> toks[2],
                                      port |-> toks[4]])

C2_BindingLineRecord ==
    (Parsed /\ inputLines # <<>> /\ IsIntegerRow(LastLine))
        => C2_OneRecord(Before, LastLine.toks)

\* The indented five-token row with upper-case MAC, after another row.
C2_Witness ==
    /\ Parsed
    /\ inputLines = <<1, 2>>
    /\ Len(clients) = 2
    /\ clients[2].vlan = 20
    /\ clients[2].port = <<"G","i","1","/","0","/","2">>

(***************************************************************************)
(* C3: a non-blank line that is no mapping declaration yields a record if  *)
(* and only if it has at least 4 tokens and its first token is a base-10   *)
(* integer; any other such line adds no record and no mapping.             *)
(***************************************************************************)
C3_RecordIff(before, line) ==
    IF IsIntegerRow(line)
    THEN Len(clients) = Len(before.clients) + 1
    ELSE clients = before.clients /\ detectedMappings = before.detectedMappings

C3_RecordIffFourTokensAndInteger ==
    (Parsed /\ inputLines # <<>> /\ LastLine.kind = "tokens" /\ LastLine.toks # <<>>)
        => C3_RecordIff(Before, LastLine)

(***************************************************************************)
(* C4: a declaration  <digits> = '<name>',  <digits> = "<name>"  or        *)
(* <digits> = <name>  stores <name>, without the quotes around it, under   *)
(* the decimal string of the VLAN id, and changes no other entry.          *)
(***************************************************************************)
IsDeclaration(line) == line.kind = "declaration" /\ line.open = line.close

C4_Stored(before, line) ==
    /\ DOMAIN detectedMappings
          = (DOMAIN before.detectedMappings) \cup {DecimalKey[line.digits]}
    /\ detectedMappings[DecimalKey[line.digits]] = line.name
    /\ \A k \in DOMAIN before.detectedMappings :
          k # DecimalKey[line.digits]
              => detectedMappings[k] = before.detectedMappings[k]

C4_DeclarationStored ==
    (Parsed /\ inputLines # <<>> /\ IsDeclaration(LastLine))
        => C4_Stored(Before, LastLine)

\* 005="Lab" after 5 = 'Guest': one entry, under "5".
C4_Witness ==
    /\ Parsed
    /\ inputLines = <<10, 11>>
    /\ DOMAIN detectedMappings = {<<"5">>}
    /\ detectedMappings[<<"5">>] = <<"L", "a", "b">>

(***************************************************************************)
(* C5: when a VLAN id is declared on several lines, detectedMappings holds *)
(* the name of the last of them, wherever the declarations stand; and it   *)
(* holds an entry for the declared VLAN ids only.                          *)
(***************************************************************************)
IsLastDeclarationOfItsVlan(i) ==
    /\ LineAt(i).kind = "declaration"
    /\ \A j \in (i + 1)..Len(inputLines) :
          LineAt(j).kind = "declaration"
              => DecimalKey[LineAt(j).digits] # DecimalKey[LineAt(i).digits]

C5_LastDeclarationWins ==
    Parsed =>
        /\ DOMAIN detectedMappings
              = {DecimalKey[LineAt(i).digits] :
                    i \in {j \in 1..Len(inputLines) : LineAt(j).kind = "declaration"}}
        /\ \A i \in 1..Len(inputLines) :
              (IsLastDeclarationOfItsVlan(i) /\ IsDeclaration(LineAt(i)))
                  => detectedMappings[DecimalKey[LineAt(i).digits]] = LineAt(i).name

\* Two declarations of VLAN 5 with a table row between them.
C5_Witness ==
    /\ Parsed
    /\ inputLines = <<10, 1, 11>>
    /\ Len(clients) = 1
    /\ detectedMappings[<<"5">>] = <<"L", "a", "b">>

(***************************************************************************)
(* C6: the declaration pattern is tried first.  A declaration adds no      *)
(* record, also when it has 4 or more tokens and an integer first token;   *)
(* a line that is no declaration adds no mapping and at most one record.   *)
(***************************************************************************)
C6_OneClass(before, line) ==
    IF line.kind = "declaration"
    THEN /\ clients = before.clients
         /\ DecimalKey[line.digits] \in DOMAIN detectedMappings
    ELSE /\ detectedMappings = before.detectedMappings
         /\ \/ clients = before.clients
            \/ /\ Len(clients) = Len(before.clients) + 1
               /\ SubSeq(clients, 1, Len(before.clients)) = before.clients

C6_DeclarationBeforeBinding ==
    (Parsed /\ inputLines # <<>>) => C6_OneClass(Before, LastLine)

\* 20 = Guest Wifi Net (five tokens, the first an integer) after a table row.
C6_Witness ==
    /\ Parsed
    /\ inputLines = <<1, 12>>
    /\ Len(SplitWhitespace(LastLine.text)) = 5
    /\ Len(clients) = 1
    /\ detectedMappings[<<"2", "0">>] = <<"G","u","e","s","t"," ","W","i","f","i"," ","N","e","t">>

(***************************************************************************)
(* C7: a MAC whose cleaned form (lower-cased, '.', ':' and '-' removed)    *)
(* has 12 characters is rendered as those characters in 6 groups of 2      *)
(* joined by ':', and that is the MAC field the row of the record starts   *)
(* with.                                                                   *)
(***************************************************************************)
C7_Field(row, cleaned) ==
    Len(cleaned) = 12 => IsPrefix(Octets(cleaned) \o <<",">>, row)

C7_Rows(rows) ==
    \A i \in 1..Len(clients) : C7_Field(rows[i + 1], CleanedForm(clients[i].mac))

C7_TwelveCharactersToOctets == Generated => C7_Rows(CsvRows)

\* 001E.0B41.7AFD, in upper case, is rendered as 00:1e:0b:41:7a:fd.
C7_Witness ==
    /\ Rendered
    /\ inputLines = <<2>>
    /\ clients[1].mac = <<"0","0","1","E",".","0","B","4","1",".","7","A","F","D">>
    /\ IsPrefix(<<"0","0",":","1","e",":","0","b",":","4","1",":","7","a",":","f","d",",">>, CsvRows[2])

(***************************************************************************)
(* C8: a MAC whose cleaned form has another length is rendered as the      *)
(* cleaned form; generateCsv returns for every request that has records    *)
(* and a mapping table, and the record keeps its row.                      *)
(***************************************************************************)
C8_Field(row, cleaned) ==
    Len(cleaned) # 12 => IsPrefix(cleaned \o <<",">>, row)

C8_Rows(rows) ==
    /\ Len(rows) = 1 + Len(clients)
    /\ \A i \in 1..Len(clients) : C8_Field(rows[i + 1], CleanedForm(clients[i].mac))

MacField(cleaned) == IF Len(cleaned) = 12 THEN Octets(cleaned) ELSE cleaned

SegmentField(row, macField) ==
    SubSeq(row, Len(macField) + 2, Len(row) - Len(RowTail))

EntryOrEmpty(table, key) == IF key \in DOMAIN table THEN table[key] ELSE <<>>

C9_Rows(rows) ==
    /\ Len(rows) = 1 + Len(clients)
    /\ \A i \in 1..Len(clients) :
          SegmentField(rows[i + 1], MacField(CleanedForm(clients[i].mac)))
              = EntryOrEmpty(finalMappings, VlanKey[clients[i].vlan])

C9_SegmentFromMapping ==
    /\ (Parsed /\ clients # <<>> /\ body.vlanMappings.kind = "object") => Generated
    /\ Generated => C9_Rows(CsvRows)

\* A table with an entry for VLAN 1 and none for VLAN 20.
C9_Witness ==
    /\ Rendered
    /\ inputLines = <<1, 2>>
    /\ DOMAIN finalMappings = {<<"1">>, <<"7">>}
    /\ CsvRows[2] = <<"0","0",":","1","e",":","0","b",":","4","1",":","7","a",":","f","d",",","C","o","r","p",",",",",",",",",",","A","l","l","o","w",",",",","N","o",",",",","N","o">>
    /\ CsvRows[3] = <<"0","0",":","1","e",":","0","b",":","4","1",":","7","a",":","f","d",",",",",",",",",",",",","A","l","l","o","w",",",",","N","o",",",",","N","o">>

(***************************************************************************)
(* C10: in every row Lock to Port, Site, Building and Floor are empty,     *)
(* Allow or Deny is Allow, Description is empty, Static IP is No, IP       *)
(* Address is empty and Passive IP is No; the ports of the records have no *)
(* part in the CSV.                                                        *)
(***************************************************************************)
WithPort(clientList, port) ==
    [i \in 1..Len(clientList) |-> [clientList[i] EXCEPT !.port = port]]

C10_Rows(rows) ==
    /\ \A i \in 1..Len(clients) : IsSuffix(RowTail, rows[i + 1])
    /\ csvContent = generateCsv(WithPort(clients, <<"P", "o", "9">>), finalMappings)

C10_FixedFields == Generated => C10_Rows(CsvRows)

\* Two records that differ in their ports.
C10_Witness ==
    /\ Rendered
    /\ Len(clients) = 2
    /\ clients[1].port # clients[2].port
    /\ IsSuffix(RowTail, CsvRows[2]) /\ IsSuffix(RowTail, CsvRows[3])

(***************************************************************************)
(* C11: the column set follows the request: with includeIpColumns false    *)
(* the header and every row have the 7 base columns, with includeIpColumns *)
(* true they have 11.                                                      *)
(***************************************************************************)
FieldCount(row) == Len(Split(row, ","))

C11_Columns(rows, n) == \A i \in 1..Len(rows) : FieldCount(rows[i]) = n

C11_ColumnSetSelectable ==
    (Generated /\ body.includeIpColumns.kind = "boolean")
        => C11_Columns(CsvRows, IF body.includeIpColumns.of THEN 11 ELSE 7)

(***************************************************************************)
(* C12: a file made only of noise lines, blank lines and mapping           *)
(* declarations, the empty file included, ends the conversion with the     *)
(* error "No valid MAC address entries found in the file".                 *)
(***************************************************************************)
\* A line that is neither a declaration nor a table row with an integer in
\* front, as it was written: blank, fewer than 4 tokens, or a first token
\* that is no integer.
IsNoise(line) ==
    /\ line.kind = "tokens"
    /\ (Len(line.toks) < 4 \/ line.toks[1] \notin DOMAIN IntegerValue)

NoBindingLines ==
    \A i \in 1..Len(inputLines) : IsNoise(LineAt(i)) \/ LineAt(i).kind = "declaration"

\* The request carries the file's text and a mapping object.
FileSubmitted ==
    /\ body.fileContent = btoa(FileText(inputLines))
    /\ body.vlanMappings.kind = "object"

C12_NoRecordsFound ==
    (pc = "done" /\ FileSubmitted /\ NoBindingLines)
        => /\ response.status = 400
           /\ response.error = "No valid MAC address entries found in the file"

(***************************************************************************)
(* C13: noise lines never abort the scan and leave no trace: the file      *)
(* without any one of its noise lines gives the same records and the same  *)
(* detected mappings, so the lines after a noise line are still processed. *)
(***************************************************************************)
WithoutLine(lines, i) == SubSeq(lines, 1, i - 1) \o SubSeq(lines, i + 1, Len(lines))

C13_SameExtraction(other) ==
    /\ clients = other.clients
    /\ detectedMappings = other.detectedMappings

C13_NoiseLeavesNoTrace ==
    (Parsed /\ FileSubmitted)
        => \A i \in 1..Len(inputLines) :
              IsNoise(LineAt(i))
                  => C13_SameExtraction(
                         parseFileContent(FileText(WithoutLine(inputLines, i))))

(***************************************************************************)
(* C14: extraction returns the detected mappings whether or not it found a *)
(* record: a file with declarations and no record still gives an entry for *)
(* every declared VLAN id, holding the name of its last declaration, and   *)
(* the mappings of any file are those of its declaration lines alone.      *)
(***************************************************************************)
DeclarationLines == SelectSeq(inputLines, LAMBDA l : LinePool[l].kind = "declaration")

DeclaredKeys == {DecimalKey[LinePool[DeclarationLines[i]].digits] : i \in DOMAIN DeclarationLines}

C14_AllDeclared ==
    /\ DOMAIN detectedMappings = DeclaredKeys
    /\ \A i \in 1..Len(inputLines) :
          (IsLastDeclarationOfItsVlan(i) /\ IsDeclaration(LineAt(i)))
              => detectedMappings[DecimalKey[LineAt(i).digits]] = LineAt(i).name

C14_MappingsWithoutRecords ==
    /\ (Parsed /\ clients = <<>>) => C14_AllDeclared
    /\ Parsed => detectedMappings
                    = parseFileContent(FileText(DeclarationLines)).detectedMappings

\* Two declarations and not one record: the handler reports no entries, the
\* extraction it ran holds both mappings.
C14_Witness ==
    /\ Parsed
    /\ clients = <<>>
    /\ response.error = "No valid MAC address entries found in the file"
    /\ DOMAIN detectedMappings = {<<"5">>, <<"2", "0">>}
    /\ detectedMappings[<<"5">>] = <<"G", "u", "e", "s", "t">>

(***************************************************************************)
(* C15, as claimed: the CSV is that of the records and the caller-supplied *)
(* mapping alone; the file without its declaration lines, sent with the    *)
(* same mapping, gives the same CSV.                                       *)
(***************************************************************************)
OtherLines == SelectSeq(inputLines, LAMBDA l : LinePool[l].kind # "declaration")

C15_SameCsv(other) == csvContent = other.csvContent

C15_CsvIgnoresDeclarations ==
    (Generated /\ FileSubmitted)
        => C15_SameCsv(handle(RequestBody(OtherLines, body.vlanMappings.map)))

(***************************************************************************)
(* C15, amended: with a caller-supplied mapping that has at least one      *)
(* entry the CSV is that of the records and the supplied mapping alone,    *)
(* whatever the declaration lines say; with a supplied mapping that has no *)
(* entry the detected table is the one rendered.  The detected table is    *)
(* returned to the caller in both cases.                                   *)
(***************************************************************************)
Supplied == body.vlanMappings.map

C15_SuppliedOrDetected ==
    /\ (Generated /\ FileSubmitted /\ DOMAIN Supplied # {})
          => /\ finalMappings = Supplied
             /\ C15_SameCsv(handle(RequestBody(OtherLines, Supplied)))
    /\ (Generated /\ FileSubmitted /\ DOMAIN Supplied = {})
          => /\ finalMappings = detectedMappings
             /\ csvContent = generateCsv(clients, detectedMappings)
    /\ Rendered => response.detectedMappings = detectedMappings

\* A record whose VLAN is declared in the file and has no entry in the
\* supplied mapping: its declaration is returned and not rendered.
C15_Witness ==
    /\ Rendered /\ FileSubmitted
    /\ DOMAIN Supplied # {}
    /\ \E i \in 1..Len(clients) :
          /\ VlanKey[clients[i].vlan] \in DOMAIN response.detectedMappings
          /\ VlanKey[clients[i].vlan] \notin DOMAIN finalMappings
          /\ SegmentField(CsvRows[i + 1], MacField(CleanedForm(clients[i].mac))) = <<>>

Undecodable ==
    body.json = "object"
    /\ (body.fileContent.kind = "undefined" \/ atobThrows(body.fileContent))

C17_Rejected ==
    /\ response.status = 400
    /\ clients = <<>> /\ csvContent = <<>>

C17_ErrorOnly ==
    /\ response.keys = {"error"}
    /\ response.error # ""
    /\ response.csvContent = Undefined

C17_Success ==
    /\ response.keys = {"csvContent", "detectedMappings"}
    /\ response.csvContent = btoa(csvContent)
    /\ response.detectedMappings = detectedMappings

C17_ErrorOrWholeResult ==
    pc = "done" =>
        /\ Undecodable => C17_Rejected
        /\ response.status \in {200, 400, 500}
        /\ response.status # 200 => C17_ErrorOnly
        /\ response.status = 200 => C17_Success

\* A body that is no base64, rejected.
C17_Witness ==
    /\ pc = "done"
    /\ body.fileContent = NotBase64
    /\ response.status = 400
    /\ response.error = "Invalid file content encoding"
    /\ response.keys = {"error"}

(***************************************************************************)
(* C18: every record that extraction emits has a VLAN id that is an        *)
(* integer of at least 0.                                                  *)
(***************************************************************************)
C18_VlanAtLeastZero ==
    Parsed => \A i \in 1..Len(clients) : clients[i].vlan >= 0

(***************************************************************************)
(* C19: every data row of the CSV has as many comma-separated fields as    *)
(* the header row, also when a MAC token or a segment name holds a comma.  *)
(***************************************************************************)
C19_SameFieldCount ==
    Generated => C11_Columns(CsvRows, FieldCount(CsvRows[1]))

(***************************************************************************)
(* C20: the normalizer inserts colons only into 12 hexadecimal digits: a   *)
(* record whose cleaned MAC has 12 characters, one of them no hexadecimal  *)
(* digit, does not get six colon-separated groups in its row.              *)
(***************************************************************************)
HexDigits == DigitSet \cup {"a", "b", "c", "d", "e", "f"}

IsHex(c) == \A k \in 1..Len(c) : c[k] \in HexDigits

C20_Field(row, cleaned) ==
    (Len(cleaned) = 12 /\ IsPrefix(Octets(cleaned) \o <<",">>, row)) => IsHex(cleaned)

C20_ColonsOnlyForHex ==
    Generated =>
        \A i \in 1..Len(clients) : C20_Field(CsvRows[i + 1], CleanedForm(clients[i].mac))

(***************************************************************************)
(* C21: a declaration's quotes are stripped only as a pair of the same     *)
(* kind: a name without quotes, or between quote characters that do not    *)
(* pair up, is stored as it was written, quote characters included.        *)
(***************************************************************************)
C21_Verbatim(line) ==
    detectedMappings[DecimalKey[line.digits]]
        = IF line.open = line.close THEN line.name
          ELSE line.open \o line.name \o line.close

C21_QuotesStrippedOnlyInPairs ==
    (Parsed /\ inputLines # <<>> /\ LastLine.kind = "declaration")
        => C21_Verbatim(LastLine)

(***************************************************************************)
(* C22: the rows are rendered with the supplied table as a whole when it   *)
(* has an entry and with the detected table as a whole when it has none;   *)
(* the tables are never merged, so a VLAN without an entry in a supplied   *)
(* table that has entries gets an empty segment, declared or not.          *)
(***************************************************************************)
C22_Table == IF DOMAIN Supplied # {} THEN Supplied ELSE detectedMappings

C22_Rows(rows, table) ==
    \A i \in 1..Len(clients) :
        SegmentField(rows[i + 1], MacField(CleanedForm(clients[i].mac)))
            = EntryOrEmpty(table, VlanKey[clients[i].vlan])

C22_WholeTable ==
    (Generated /\ body.vlanMappings.kind = "object") => C22_Rows(CsvRows, C22_Table)

\* VLAN 20 is declared in the file and absent from the supplied table.
C22_Witness ==
    /\ Rendered
    /\ inputLines = <<12, 2>>
    /\ DOMAIN Supplied = {<<"1">>, <<"7">>}
    /\ <<"2", "0">> \in DOMAIN detectedMappings
    /\ clients[1].vlan = 20
    /\ CsvRows[2] = Octets(CleanedForm(clients[1].mac)) \o <<",">> \o RowTail

(***************************************************************************)
(* C23: a request with decodable content and at least one record and no    *)
(* vlanMappings field is handled as one with an empty mapping: it succeeds *)
(* and is rendered with the detected mappings.                             *)
(***************************************************************************)
C23_AsEmptyMapping(other) ==
    /\ response.status = 200
    /\ finalMappings = detectedMappings
    /\ response = other.response

C23_MissingMappingsFallBack ==
    (Parsed /\ clients # <<>> /\ body.vlanMappings.kind = "undefined")
        => C23_AsEmptyMapping(handle([body EXCEPT !.vlanMappings = Object(<<>>)]))

(***************************************************************************)
(* C24: the normalizer is canonical and idempotent: records whose MAC      *)
(* tokens have the same cleaned form get the same MAC field, and the       *)
(* normalizer returns a MAC field it is given unchanged.                   *)
(***************************************************************************)
\* The MAC field of data row i: the row without the Segment and what
\* follows it.
RenderedMac(i) ==
    SubSeq(CsvRows[i + 1], 1,
           Len(CsvRows[i + 1]) - Len(RowTail)
               - Len(EntryOrEmpty(finalMappings, VlanKey[clients[i].vlan])) - 1)

C24_Canonical(i, j) ==
    CleanedForm(clients[i].mac) = CleanedForm(clients[j].mac)
        => RenderedMac(i) = RenderedMac(j)

C24_CanonicalAndIdempotent ==
    Generated =>
        /\ \A i, j \in 1..Len(clients) : C24_Canonical(i, j)
        /\ \A i \in 1..Len(clients) : formatMacAddress(RenderedMac(i)) = RenderedMac(i)

\* The same address written with colons and, in upper case, with dots.
C24_Witness ==
    /\ Rendered
    /\ inputLines = <<5, 2>>
    /\ clients[1].mac # clients[2].mac
    /\ RenderedMac(1) = RenderedMac(2)
    /\ RenderedMac(1) = clients[1].mac

(***************************************************************************)
(* C25: the scan of the page and the scan of the route agree on every file *)
(* content: once the page has read a file, its VLAN list is the ascending, *)
(* duplicate-free list of the VLANs of the records parseFileContent        *)
(* extracts from that content, and its detected mappings are the ones      *)
(* parseFileContent detects.                                               *)
(***************************************************************************)
RecordVlans(records) == {records[i].vlan : i \in 1..Len(records)}

C25_Agree(found) ==
    /\ ui.vlans = SortAscending(RecordVlans(found.clients))
    /\ ui.detectedMappings = found.detectedMappings

C25_PageScanIsRouteScan ==
    event.kind = "load" => C25_Agree(parseFileContent(ui.fileContent.of))

\* A file with a header, declarations and rows of three VLANs.
C25_Witness ==
    /\ event.kind = "load"
    /\ inputLines = <<7, 10, 12, 1, 2, 3>>
    /\ ui.fileContent = String(FileText(inputLines))
    /\ ui.vlans = <<1, 7, 20>>
    /\ DOMAIN ui.detectedMappings = {<<"5">>, <<"2", "0">>}

(***************************************************************************)
(* C26: a file is uploaded and Process File is pressed with no mapping     *)
(* field changed: the Segment of every row of the CSV shown is the name of *)
(* the last declaration of the record's VLAN in the file, as it was        *)
(* written there (C21), and is empty when the file has none.               *)
(***************************************************************************)
\* The lines the loaded content was written from.
LoadedLines == (CHOOSE f \in PageFiles : f.text = ui.fileContent.of).lines

BindingLines(lines) ==
    SelectSeq(lines, LAMBDA l : LinePool[l].kind = "tokens" /\ ~IsNoise(LinePool[l]))

WrittenName(line) ==
    IF line.open = line.close THEN line.name ELSE line.open \o line.name \o line.close

IsLastDeclarationOf(lines, i, key) ==
    /\ LinePool[lines[i]].kind = "declaration"
    /\ DecimalKey[LinePool[lines[i]].digits] = key
    /\ \A j \in (i + 1)..Len(lines) :
          LinePool[lines[j]].kind = "declaration"
              => DecimalKey[LinePool[lines[j]].digits] # key

DeclaredName(lines, key) ==
    IF \E i \in 1..Len(lines) : IsLastDeclarationOf(lines, i, key)
    THEN WrittenName(LinePool[lines[CHOOSE i \in 1..Len(lines) :
                                        IsLastDeclarationOf(lines, i, key)]])
    ELSE <<>>

\* One upload, then Process File, and the CSV is shown.
ProcessedUnedited ==
    /\ event = [kind |-> "settle", n |-> 2, uploads |-> 1]
    /\ ui.step = "results"

C26_Rows(lines, rows, binding) ==
    /\ Len(rows) = 1 + Len(binding)
    /\ \A i \in 1..Len(binding) :
          SegmentField(rows[i + 1], MacField(CleanedForm(LinePool[binding[i]].toks[2])))
              = DeclaredName(lines, VlanKey[IntegerValue[LinePool[binding[i]].toks[1]]])

C26_SegmentIsDeclaredName ==
    ProcessedUnedited =>
        C26_Rows(LoadedLines, Split(ui.csvData.of, "\n"), BindingLines(LoadedLines))

(***************************************************************************)
(* C27: while the results are shown, the CSV is the conversion of the      *)
(* content that is loaded now with the mappings that are held now; and     *)
(* the answer to a request made before a reset does not bring a CSV or     *)
(* detected mappings into the page that was reset: in the upload step      *)
(* there is no CSV and no detected mapping.                                *)
(***************************************************************************)
\* What the route answers for the content and the mappings of the page.
Conversion(u) == handle(fetchBody(u)).response

C27_ShownIsCurrent(u) ==
    /\ u.fileContent.kind = "string"
    /\ ~btoaThrows(u.fileContent.of)
    /\ Conversion(u).status = 200
    /\ u.csvData = String(atob(Conversion(u).csvContent))

C27_NoStaleResponse ==
    /\ ui.step = "results" => C27_ShownIsCurrent(ui)
    /\ ui.step = "upload" => (ui.csvData = Null /\ ui.detectedMappings = <<>>)

(***************************************************************************)
(* C28: a conversion request that fails (the fetch is rejected, the status *)
(* is not 2xx, the body is no JSON or its csvContent is no base64) shows   *)
(* an alert and leaves step, fileContent, vlans, vlanMappings and csvData  *)
(* as they were, so the request can be made again; and whenever Process    *)
(* File was clicked, isLoading is false again later, whether the request   *)
(* succeeds or fails.                                                      *)
(***************************************************************************)
\* The step is the answer to a request, and it ended in the catch block.
RequestFails == event'.kind = "settle" /\ ui'.alerts = ui.alerts + 1

C28_PageKept ==
    /\ ui'.step = ui.step
    /\ ui'.fileContent = ui.fileContent
    /\ ui'.vlans = ui.vlans
    /\ ui'.vlanMappings = ui.vlanMappings
    /\ ui'.csvData = ui.csvData

C28_FailureKeepsPageAndLoadingEnds ==
    /\ [][RequestFails => C28_PageKept]_vars
    /\ (event.kind = "process") ~> ~ui.isLoading

\* The route answered 400 to the file that has a declaration and no row:
\* the page is in the mapping step as before, ready for another click.
C28_Witness ==
    /\ event.kind = "settle"
    /\ ui.alert = <<"API error: ", 400>>
    /\ ui.alerts = 1
    /\ ui.step = "mapping"
    /\ ui.fileContent = String(FileText(<<10>>))
    /\ ui.csvData = Null
    /\ ~ui.isLoading
    /\ net = {}

(***************************************************************************)
(* C29: mappings do not outlive a session.  When handleReset has run,      *)
(* file, fileContent, vlans, vlanMappings, detectedMappings and csvData    *)
(* are empty and the step is upload; and when a file has been read, the    *)
(* VLAN list is the ascending list of the VLANs of its table rows and the  *)
(* mapping fields hold the non-empty names of its own last declarations    *)
(* for those VLANs and nothing else, whatever the page held before.        *)
(***************************************************************************)
C29_Empty(u) ==
    /\ u.file = Null /\ u.fileContent = Null /\ u.csvData = Null
    /\ u.vlans = <<>> /\ u.vlanMappings = <<>> /\ u.detectedMappings = <<>>
    /\ u.step = "upload"

RowVlans(lines) ==
    {IntegerValue[LinePool[BindingLines(lines)[i]].toks[1]] :
        i \in 1..Len(BindingLines(lines))}

\* The last declaration of the key in the file, 0 when it has none.
LastDeclaration(lines, key) ==
    IF \E i \in 1..Len(lines) : IsLastDeclarationOf(lines, i, key)
    THEN lines[CHOOSE i \in 1..Len(lines) : IsLastDeclarationOf(lines, i, key)]
    ELSE 0

NamedKeys(lines) ==
    {k \in {VlanKey[v] : v \in RowVlans(lines)} :
        /\ LastDeclaration(lines, k) # 0
        /\ LinePool[LastDeclaration(lines, k)].name # <<>>}

C29_OfTheFileAlone(u, lines) ==
    /\ Len(u.vlans) = Cardinality(RowVlans(lines))
    /\ {u.vlans[i] : i \in 1..Len(u.vlans)} = RowVlans(lines)
    /\ \A i \in 1..(Len(u.vlans) - 1) : u.vlans[i] < u.vlans[i + 1]
    /\ DOMAIN u.vlanMappings = NamedKeys(lines)
    /\ \A k \in NamedKeys(lines) :
          u.vlanMappings[k] = LinePool[LastDeclaration(lines, k)].name

C29_NothingPersists ==
    /\ event.kind = "reset" => C29_Empty(ui)
    /\ event.kind = "load" => C29_OfTheFileAlone(ui, LoadedLines)

\* Two files were uploaded and both have been read, the one with the row of
\* VLAN 20 last: the fields hold its declaration and nothing of the other.
C29_Witness ==
    /\ event = [kind |-> "load", n |-> 3, uploads |-> 2]
    /\ net = {}
    /\ ui.fileContent = String(FileText(<<12, 2>>))
    /\ ui.file = ui.fileContent
    /\ ui.vlans = <<20>>
    /\ DOMAIN ui.vlanMappings = {<<"2", "0">>}
    /\ ui.csvData = Null

=============================================================================
